---------------------------- MODULE Spec2Model ----------------------------
(***************************************************************************)
(* Model of the localized-label expression compiler of OpenStreetMap       *)
(* Americana (src/unnamed/part_001: the style's label/localization module).*)
(*                                                                         *)
(* A JavaScript string is a sequence of UTF-16 code units; a code unit is  *)
(* written as a TLA+ string naming it: "a", ";", " " stand for themselves, *)
(* "LF" is U+000A, "BULLET" U+2022, "ZWSP" U+200B, "X91" U+0091, "FFFC"    *)
(* U+FFFC, "X92" U+0092, "e'" is U+00E9 (e with acute accent), "E'" is     *)
(* U+00C9, "KAN" is a CJK ideograph.                                       *)
(*                                                                         *)
(* An expression (a JSON value) is a record tagged by k:                   *)
(*   str (a string), num, bool, null, obj (an options object: a sequence   *)
(*   of <<key, value>> pairs), arr (an array: a sequence of expressions,   *)
(*   the first of which names the operator), ref (an element of an array   *)
(*   that is itself an array built once at module load, held by reference: *)
(*   id names it, Deref gives it).                                         *)
(***************************************************************************)
EXTENDS Integers, Sequences, FiniteSets, TLC

VARIABLES
  pc,         \* position of the driver of the operation under study
  rin,        \* inputs of the expression-building call under study
  rout,       \* ... and what it returned (SpecLocales) or what the returned
              \* expression evaluates to (SpecStrings)
  heap,       \* the module's exported template arrays, by name (shared, mutable)
  layers,     \* the style layers; a layer's text-field is a reference into heap
  locales,    \* the locale chain of the current build
  browser,    \* window.location.hash and navigator.languages / .language
  feature,    \* properties of the feature being labelled
  rendered,   \* what the evaluator renders for feature
  uin,        \* updateVariable: the call's arguments
  unode,      \* ... and the node passed as letExpr, as it is now
  style       \* the style the map was last given: its layers and the
              \* text-field arrays as they were when it was given

vars ==
  <<pc, rin, rout, heap, layers, locales, browser, feature, rendered, uin, unode, style>>

-----------------------------------------------------------------------------
(* JSON values *)

Str(s) == [k |-> "str", s |-> s]
Num(n) == [k |-> "num", n |-> n]
Bool(b) == [k |-> "bool", b |-> b]
Null == [k |-> "null"]
Obj(f) == [k |-> "obj", f |-> f]
Arr(a) == [k |-> "arr", a |-> a]
Ref(id) == [k |-> "ref", id |-> id]

Min2(a, b) == IF a < b THEN a ELSE b
Max2(a, b) == IF a > b THEN a ELSE b

\* All sequences over alphabet of length at most n.
RECURSIVE SeqsUpTo(_, _)
SeqsUpTo(alphabet, n) ==
  IF n = 0 THEN {<<>>}
  ELSE LET shorter == SeqsUpTo(alphabet, n - 1)
       IN  shorter \cup {Append(s, c) : s \in shorter, c \in alphabet}

-----------------------------------------------------------------------------
(* JavaScript string primitives the evaluator's operators are defined by. *)

\* String.prototype.slice(begin, end): negative indices count from the end,
\* both are clamped to the string, an empty range gives "".
JsSlice(s, b, e) ==
  IF e < 0
  THEN (IF b < 0
        THEN SubSeq(s, Max2(Len(s) + b, 0) + 1, Max2(Len(s) + e, 0))
        ELSE SubSeq(s, Min2(b, Len(s)) + 1, Max2(Len(s) + e, 0)))
  ELSE (IF b < 0
        THEN SubSeq(s, Max2(Len(s) + b, 0) + 1, Min2(e, Len(s)))
        ELSE SubSeq(s, Min2(b, Len(s)) + 1, Min2(e, Len(s))))

\* String.prototype.slice(begin): to the end of the string.
JsSliceFrom(s, b) ==
  IF b < 0 THEN SubSeq(s, Max2(Len(s) + b, 0) + 1, Len(s))
  ELSE SubSeq(s, Min2(b, Len(s)) + 1, Len(s))

\* The first index at or after pos (0-based) where n occurs in h, or -1.
IndexAtOrAfter(h, n, pos) ==
  LET cands == {i \in pos..(Len(h) - Len(n)) : SubSeq(h, i + 1, i + Len(n)) = n}
  IN  IF cands = {} THEN -1 ELSE CHOOSE i \in cands : \A j \in cands : i <= j

\* String.prototype.indexOf(needle, fromIndex): 0-based, -1 when absent; the
\* start is clamped to the string.
JsIndexOf(h, n, fromIndex) ==
  IF fromIndex < 0 THEN IndexAtOrAfter(h, n, 0)
  ELSE IF fromIndex > Len(h) THEN IndexAtOrAfter(h, n, Len(h))
  ELSE IndexAtOrAfter(h, n, fromIndex)

\* Remainder operator %: the sign of the result is the sign of the dividend.
JsRem(a, m) == IF a >= 0 THEN a % m ELSE -((-a) % m)

\* Array.prototype.indexOf with strict equality: a string element equals only
\* an identical string; arrays and objects never equal a string.
ArrayIndexOf(a, x) ==
  LET hits == {i \in 1..Len(a) : a[i] = x}
  IN  IF hits = {} THEN -1 ELSE (CHOOSE i \in hits : \A j \in hits : i <= j) - 1

-----------------------------------------------------------------------------
(* Strings the module writes as literals. *)

sLet == <<"l","e","t">>
sVar == <<"v","a","r">>
sGet == <<"g","e","t">>
sCase == <<"c","a","s","e">>
sSlice == <<"s","l","i","c","e">>
sIndexOf == <<"i","n","d","e","x","-","o","f">>
sLength == <<"l","e","n","g","t","h">>
sConcat == <<"c","o","n","c","a","t">>
sCoalesce == <<"c","o","a","l","e","s","c","e">>
sCollator == <<"c","o","l","l","a","t","o","r">>
sFormat == <<"f","o","r","m","a","t">>
sAll == <<"a","l","l">>
sIn == <<"i","n">>
sEq == <<"=","=">>
sGe == <<">","=">>
sPlus == <<"+">>
sMinus == <<"-">>
sName == <<"n","a","m","e">>
sLocalizedName == <<"l","o","c","a","l","i","z","e","d","N","a","m","e">>
sLocalizedCollator == <<"l","o","c","a","l","i","z","e","d","C","o","l","l","a","t","o","r">>
sDiacriticInsensitiveCollator ==
  <<"d","i","a","c","r","i","t","i","c","I","n","s","e","n","s","i","t","i","v","e",
    "C","o","l","l","a","t","o","r">>
sSafeValueList == <<"s","a","f","e","V","a","l","u","e","L","i","s","t">>
sPrettyValueList == <<"p","r","e","t","t","y","V","a","l","u","e","L","i","s","t">>
sTransportationName ==
  <<"t","r","a","n","s","p","o","r","t","a","t","i","o","n","_","n","a","m","e">>
sLanguage == <<"l","a","n","g","u","a","g","e">>

\* ["op", args...]
Call(op, args) == [k |-> "arr", a |-> <<[k |-> "str", s |-> op]>> \o args]

-----------------------------------------------------------------------------
(* replaceExpression and listValuesExpression *)

\* replaceExpression, except that the search resumes at the start of the
\* matched region instead of just after it.
RECURSIVE replaceExpressionResumeAtMatch(_, _, _, _, _)
replaceExpressionResumeAtMatch(haystack, needle, replacement, haystackStart, numReplacements) ==
  LET asIs == Call(sSlice, <<haystack, haystackStart>>)
      needleStart == Call(sIndexOf, <<needle, haystack, haystackStart>>)
  IN  IF numReplacements <= 0 THEN asIs
      ELSE [k |-> "arr",
            a |-> <<Str(sCase),
                    Call(sGe, <<needleStart, Num(0)>>),
                    [k |-> "arr",
                     a |-> <<Str(sConcat),
                             Call(sSlice, <<haystack, haystackStart, needleStart>>),
                             replacement,
                             replaceExpressionResumeAtMatch(haystack, needle, replacement, needleStart,
                               numReplacements - 1)>>],
                    asIs>>]

\* replaceExpression, except that the fallback of the case is the whole
\* haystack instead of its slice from haystackStart.
RECURSIVE replaceExpressionWholeFallback(_, _, _, _, _)
replaceExpressionWholeFallback(haystack, needle, replacement, haystackStart, numReplacements) ==
  LET asIs == Call(sSlice, <<haystack, haystackStart>>)
      needleStart == Call(sIndexOf, <<needle, haystack, haystackStart>>)
      needleLength == IF needle.k \in {"arr", "obj", "null"}
                      THEN Call(sLength, <<needle>>)
                      ELSE Num(Len(needle.s))
      needleEnd == Call(sPlus, <<needleStart, needleLength>>)
  IN  IF numReplacements <= 0 THEN asIs
      ELSE [k |-> "arr",
            a |-> <<Str(sCase),
                    Call(sGe, <<needleStart, Num(0)>>),
                    [k |-> "arr",
                     a |-> <<Str(sConcat),
                             Call(sSlice, <<haystack, haystackStart, needleStart>>),
                             replacement,
                             replaceExpressionWholeFallback(haystack, needle, replacement, needleEnd,
                               numReplacements - 1)>>],
                    haystack>>]

RECURSIVE replaceExpression(_, _, _, _, _)
replaceExpression(haystack, needle, replacement, haystackStart, numReplacements) ==
  LET asIs == Call(sSlice, <<haystack, haystackStart>>)
      needleStart == Call(sIndexOf, <<needle, haystack, haystackStart>>)
      needleLength == IF needle.k \in {"arr", "obj", "null"}
                      THEN Call(sLength, <<needle>>)
                      ELSE Num(Len(needle.s))
      needleEnd == Call(sPlus, <<needleStart, needleLength>>)
  IN  IF numReplacements <= 0 THEN asIs
      ELSE [k |-> "arr",
            a |-> <<Str(sCase),
                    Call(sGe, <<needleStart, Num(0)>>),
                    [k |-> "arr",
                     a |-> <<Str(sConcat),
                             Call(sSlice, <<haystack, haystackStart, needleStart>>),
                             replacement,
                             replaceExpression(haystack, needle, replacement, needleEnd,
                               numReplacements - 1)>>],
                    asIs>>]

maxValueListLength == 9

\* "\x91￼\x92"
objReplacementChar == <<"X91", "FFFC", "X92">>

\* listValuesExpression with room for one separator fewer.
listValuesExpressionOneFewer(valueList, separator) ==
  LET maxSeparators == maxValueListLength - 2
      safeValueList ==
        replaceExpression(valueList, Str(<<";", ";">>), Str(objReplacementChar),
                          Num(0), maxSeparators)
      prettyValueList ==
        replaceExpression(Call(sVar, <<Str(sSafeValueList)>>), Str(<<";">>), separator,
                          Num(0), maxSeparators)
      prettySafeValueList ==
        replaceExpression(Call(sVar, <<Str(sPrettyValueList)>>), Str(objReplacementChar),
                          Str(<<";">>), Num(0), maxSeparators)
  IN  Call(sLet,
        <<Str(sSafeValueList), safeValueList,
          Call(sLet, <<Str(sPrettyValueList), prettyValueList, prettySafeValueList>>)>>)

listValuesExpression(valueList, separator) ==
  LET maxSeparators == maxValueListLength - 1
      safeValueList ==
        replaceExpression(valueList, Str(<<";", ";">>), Str(objReplacementChar),
                          Num(0), maxSeparators)
      prettyValueList ==
        replaceExpression(Call(sVar, <<Str(sSafeValueList)>>), Str(<<";">>), separator,
                          Num(0), maxSeparators)
      prettySafeValueList ==
        replaceExpression(Call(sVar, <<Str(sPrettyValueList)>>), Str(objReplacementChar),
                          Str(<<";">>), Num(0), maxSeparators)
  IN  Call(sLet,
        <<Str(sSafeValueList), safeValueList,
          Call(sLet, <<Str(sPrettyValueList), prettyValueList, prettySafeValueList>>)>>)

-----------------------------------------------------------------------------
(* The exported label templates *)

varLocalizedName == Call(sVar, <<Str(sLocalizedName)>>)
getName == Call(sGet, <<Str(sName)>>)

\* The bodies of localizedName and localizedNameInline.
localizedNameBody == listValuesExpression(varLocalizedName, Str(<<"LF">>))
localizedNameInlineBody ==
  listValuesExpression(varLocalizedName, Str(<<" ", "BULLET", " ">>))

localizedName ==
  Call(sLet, <<Str(sLocalizedName), Str(<<>>), Ref("localizedNameBody")>>)

localizedNameInline ==
  Call(sLet, <<Str(sLocalizedName), Str(<<>>), Ref("localizedNameInlineBody")>>)

startsWithExpression(target, candidatePrefix, collator) ==
  LET wordBoundaries == <<" ", ",">>
  IN  Call(sAll,
        <<Call(sEq,
            <<Call(sSlice, <<target, Num(0), Call(sLength, <<candidatePrefix>>)>>),
              candidatePrefix,
              collator>>),
          Call(sIn,
            <<Call(sSlice,
                <<Call(sConcat, <<target, Str(<<wordBoundaries[1]>>)>>),
                  Call(sLength, <<candidatePrefix>>),
                  Call(sPlus, <<Call(sLength, <<candidatePrefix>>), Num(1)>>)>>),
              Str(wordBoundaries)>>)>>)

overwritePrefixExpression(target, newPrefix) ==
  Call(sConcat, <<newPrefix, Call(sSlice, <<target, Call(sLength, <<newPrefix>>)>>)>>)

\* endsWithExpression accepting the word boundaries of startsWithExpression.
endsWithExpressionAnyBoundary(target, candidateSuffix, collator) ==
  LET wordBoundaries == <<" ", ",">>
      suffixStart == Call(sMinus, <<Call(sLength, <<target>>),
                                    Call(sLength, <<candidateSuffix>>)>>)
  IN  Call(sAll,
        <<Call(sEq, <<Call(sSlice, <<target, suffixStart>>), candidateSuffix, collator>>),
          Call(sIn,
            <<Call(sSlice, <<target, Call(sMinus, <<suffixStart, Num(1)>>), suffixStart>>),
              Str(wordBoundaries)>>)>>)

endsWithExpression(target, candidateSuffix, collator) ==
  LET wordBoundary == <<" ">>
      suffixStart == Call(sMinus, <<Call(sLength, <<target>>),
                                    Call(sLength, <<candidateSuffix>>)>>)
  IN  Call(sAll,
        <<Call(sEq, <<Call(sSlice, <<target, suffixStart>>), candidateSuffix, collator>>),
          Call(sEq,
            <<Call(sSlice, <<target, Call(sMinus, <<suffixStart, Num(1)>>), suffixStart>>),
              Str(wordBoundary)>>)>>)

overwriteSuffixExpression(target, newSuffix) ==
  Call(sConcat,
    <<Call(sSlice, <<target, Num(0),
                     Call(sMinus, <<Call(sLength, <<target>>),
                                    Call(sLength, <<newSuffix>>)>>)>>),
      newSuffix>>)

\* { "font-scale": 0.8 } and { "font-scale": 0.001 }, in thousandths
fontScaleGloss == Obj(<< <<"font-scale", Num(800)>> >>)
fontScaleIsolate == Obj(<< <<"font-scale", Num(1)>> >>)

\* The four (condition, output) branches of localizedNameWithLocalGloss's case.
glossExactTest ==
  Call(sEq, <<varLocalizedName, getName, Call(sVar, <<Str(sLocalizedCollator)>>)>>)
glossExactOutput ==
  Call(sFormat, <<listValuesExpression(varLocalizedName, Str(<<"LF">>))>>)
glossPrefixTest ==
  startsWithExpression(varLocalizedName, getName,
                       Call(sVar, <<Str(sDiacriticInsensitiveCollator)>>))
glossPrefixOutput ==
  Call(sFormat,
    <<overwritePrefixExpression(varLocalizedName,
                                listValuesExpression(getName, Str(<<"LF">>)))>>)
glossSuffixTest ==
  endsWithExpression(varLocalizedName, getName,
                     Call(sVar, <<Str(sDiacriticInsensitiveCollator)>>))
glossSuffixOutput ==
  Call(sFormat,
    <<overwriteSuffixExpression(varLocalizedName,
                                listValuesExpression(getName, Str(<<"LF">>)))>>)
glossOtherwiseOutput ==
  Call(sFormat,
    <<varLocalizedName,
      Str(<<"LF">>),
      Str(<<"(", "ZWSP">>),
      fontScaleGloss,
      Call(sConcat, <<Call(sSlice, <<varLocalizedName, Num(0), Num(1)>>), Str(<<" ">>)>>),
      fontScaleIsolate,
      listValuesExpression(getName, Str(<<" ", "BULLET", " ">>)),
      fontScaleGloss,
      Call(sConcat, <<Str(<<" ">>), Call(sSlice, <<varLocalizedName, Num(0), Num(1)>>)>>),
      fontScaleIsolate,
      Str(<<"ZWSP", ")">>),
      fontScaleGloss>>)

\* glossCase testing the prefix branch before the exact match.
glossCasePrefixFirst ==
  Call(sCase,
    <<glossPrefixTest, glossPrefixOutput,
      glossExactTest, glossExactOutput,
      glossSuffixTest, glossSuffixOutput,
      glossOtherwiseOutput>>)

glossCase ==
  Call(sCase,
    <<glossExactTest, glossExactOutput,
      glossPrefixTest, glossPrefixOutput,
      glossSuffixTest, glossSuffixOutput,
      glossOtherwiseOutput>>)

localizedNameWithLocalGloss ==
  Call(sLet,
    <<Str(sLocalizedName), Str(<<>>),
      Str(sLocalizedCollator), Call(sCollator, <<Obj(<<>>)>>),
      Str(sDiacriticInsensitiveCollator), Call(sCollator, <<Obj(<<>>)>>),
      Ref("glossCase")>>)

\* The array a reference is to.
Deref(id) ==
  CASE id = "localizedNameBody" -> localizedNameBody
    [] id = "localizedNameInlineBody" -> localizedNameInlineBody
    [] id = "glossCase" -> glossCase

-----------------------------------------------------------------------------
(* The expression evaluator the trees are handed to (MapLibre style          *)
(* expressions), for the operators the module emits.  A collator compares    *)
(* code unit by code unit after folding what it is insensitive to.           *)

\* Code units that differ only in case or diacritic share a base letter.
BaseLetter(c) == IF c \in {"e", "E", "e'", "E'"} THEN "e" ELSE c
HasAccent(c) == c \in {"e'", "E'"}
IsUpper(c) == c \in {"E", "E'"}

\* The key a collator with the given sensitivities compares code units by.
CollationKey(c, caseSensitive, diacriticSensitive) ==
  <<BaseLetter(c),
    IF caseSensitive THEN IsUpper(c) ELSE FALSE,
    IF diacriticSensitive THEN HasAccent(c) ELSE FALSE>>

\* collator.compare(a, b) === 0
CollatorEqual(a, b, coll) ==
  /\ Len(a) = Len(b)
  /\ \A i \in 1..Len(a) :
       CollationKey(a[i], coll.cs, coll.ds) = CollationKey(b[i], coll.cs, coll.ds)

\* The value of key in an options object, or dflt when the key is absent.
ObjGet(o, key, dflt) ==
  LET hits == {i \in 1..Len(o.f) : o.f[i][1] = key}
  IN  IF hits = {} THEN dflt ELSE o.f[CHOOSE i \in hits : TRUE][2]

\* Conversion of a value to a string, as concat and format apply it.
ToStr(v) == IF v.k = "str" THEN v.s ELSE <<>>

\* The sections of a format expression's arguments: a content argument opens
\* a section, an options object after it sets that section's font scale (in
\* thousandths; 1000 when none is given).
RECURSIVE FormatSections(_, _)
FormatSections(vals, acc) ==
  IF vals = <<>> THEN acc
  ELSE LET v == Head(vals)
       IN  IF v.k = "obj"
           THEN FormatSections(Tail(vals),
                  [acc EXCEPT ![Len(acc)].scale = ObjGet(v, "font-scale", Num(1000)).n])
           ELSE FormatSections(Tail(vals),
                  Append(acc, [text |-> ToStr(v), scale |-> 1000]))

NoBindings == <<>>

\* The value bound to name in the innermost enclosing let (bindings are a
\* sequence of <<name, value>>, innermost last).
Bound(env, name) ==
  LET hits == {i \in 1..Len(env) : env[i][1] = name}
  IN  env[CHOOSE i \in hits : \A j \in hits : j <= i][2]

\* Expressions are typed by their operator: slice and concat yield strings,
\* +, -, length and index-of numbers, >=, all, in and == booleans.  EvalS,
\* EvalN and EvalB evaluate an expression to the bare string, number or
\* boolean; Eval evaluates any expression to a tagged value.
RECURSIVE Eval(_, _, _)
RECURSIVE EvalS(_, _, _)
RECURSIVE EvalN(_, _, _)
RECURSIVE EvalB(_, _, _)
RECURSIVE EvalCase(_, _, _, _)
RECURSIVE EvalCoalesce(_, _, _, _)
RECURSIVE EvalLet(_, _, _, _, _)
RECURSIVE EvalConcat(_, _, _, _)

StringOps == {sSlice, sConcat}
NumberOps == {sPlus, sMinus, sLength, sIndexOf}
BooleanOps == {sGe, sAll, sIn, sEq}

\* case: the output of the first branch whose condition is true, else the
\* fallback (the last argument).
EvalCase(a, i, env, props) ==
  IF i = Len(a) THEN Eval(a[i], env, props)
  ELSE IF EvalB(a[i], env, props) THEN Eval(a[i + 1], env, props)
  ELSE EvalCase(a, i + 2, env, props)

\* coalesce: the first argument whose value is not null, else null.
EvalCoalesce(a, i, env, props) ==
  IF i > Len(a) THEN Null
  ELSE LET v == Eval(a[i], env, props)
       IN  IF v.k # "null" THEN v ELSE EvalCoalesce(a, i + 1, env, props)

\* let: every (name, value) pair is evaluated in the enclosing scope, once,
\* and the last argument is evaluated with the pairs bound to those values.
EvalLet(a, i, env, inner, props) ==
  IF i >= Len(a) THEN Eval(a[Len(a)], inner, props)
  ELSE CHOOSE r \in {EvalLet(a, i + 2, env, Append(inner, <<a[i].s, v>>), props) :
                       v \in {Eval(a[i + 1], env, props)}} : TRUE

\* concat: the string conversions of arguments 2..i, joined.
EvalConcat(a, i, env, props) ==
  IF i < 2 THEN <<>>
  ELSE EvalConcat(a, i - 1, env, props) \o EvalS(a[i], env, props)

\* The string an expression yields; a value that is no string is converted.
EvalS(e, env, props) ==
  CASE e.k = "str" -> e.s
    [] e.k = "arr" /\ e.a[1].s = sSlice /\ Len(e.a) = 3 ->
         JsSliceFrom(EvalS(e.a[2], env, props), EvalN(e.a[3], env, props))
    [] e.k = "arr" /\ e.a[1].s = sSlice /\ Len(e.a) = 4 ->
         JsSlice(EvalS(e.a[2], env, props), EvalN(e.a[3], env, props),
                 EvalN(e.a[4], env, props))
    [] e.k = "arr" /\ e.a[1].s = sConcat /\ Len(e.a) = 4 ->
         EvalS(e.a[2], env, props) \o EvalS(e.a[3], env, props)
           \o EvalS(e.a[4], env, props)
    [] e.k = "arr" /\ e.a[1].s = sConcat /\ Len(e.a) # 4 ->
         EvalConcat(e.a, Len(e.a), env, props)
    [] e.k = "arr" /\ e.a[1].s = sCase /\ Len(e.a) = 4 ->
         IF EvalB(e.a[2], env, props) THEN EvalS(e.a[3], env, props)
         ELSE EvalS(e.a[4], env, props)
    [] OTHER -> ToStr(Eval(e, env, props))

\* The number an expression yields.
EvalN(e, env, props) ==
  CASE e.k = "num" -> e.n
    [] e.k = "arr" /\ e.a[1].s = sPlus ->
         EvalN(e.a[2], env, props) + EvalN(e.a[3], env, props)
    [] e.k = "arr" /\ e.a[1].s = sMinus ->
         EvalN(e.a[2], env, props) - EvalN(e.a[3], env, props)
    [] e.k = "arr" /\ e.a[1].s = sLength -> Len(EvalS(e.a[2], env, props))
    [] e.k = "arr" /\ e.a[1].s = sIndexOf /\ Len(e.a) = 3 ->
         JsIndexOf(EvalS(e.a[3], env, props), EvalS(e.a[2], env, props), 0)
    [] e.k = "arr" /\ e.a[1].s = sIndexOf /\ Len(e.a) = 4 ->
         JsIndexOf(EvalS(e.a[3], env, props), EvalS(e.a[2], env, props),
                   EvalN(e.a[4], env, props))
    [] OTHER -> Eval(e, env, props).n

\* The boolean an expression yields.
EvalB(e, env, props) ==
  CASE e.k = "bool" -> e.b
    [] e.k = "arr" /\ e.a[1].s = sGe ->
         EvalN(e.a[2], env, props) >= EvalN(e.a[3], env, props)
    [] e.k = "arr" /\ e.a[1].s = sAll ->
         \A i \in 2..Len(e.a) : EvalB(e.a[i], env, props)
    [] e.k = "arr" /\ e.a[1].s = sIn ->
         JsIndexOf(EvalS(e.a[3], env, props), EvalS(e.a[2], env, props), 0) >= 0
    [] e.k = "arr" /\ e.a[1].s = sEq ->
         LET x == Eval(e.a[2], env, props)
             y == Eval(e.a[3], env, props)
         IN  IF Len(e.a) >= 4 /\ x.k = "str" /\ y.k = "str"
             THEN CollatorEqual(x.s, y.s, Eval(e.a[4], env, props))
             ELSE x = y
    [] OTHER -> Eval(e, env, props).b

Eval(e, env, props) ==
  CASE e.k = "ref" -> Eval(Deref(e.id), env, props)
    [] e.k \notin {"ref", "arr"} -> e
    [] e.k = "arr" /\ e.a[1].s \in StringOps -> [k |-> "str", s |-> EvalS(e, env, props)]
    [] e.k = "arr" /\ e.a[1].s \in NumberOps -> [k |-> "num", n |-> EvalN(e, env, props)]
    [] e.k = "arr" /\ e.a[1].s \in BooleanOps ->
         [k |-> "bool", b |-> EvalB(e, env, props)]
    [] e.k = "arr" /\ e.a[1].s = sGet ->
         IF e.a[2].s \in DOMAIN props THEN Str(props[e.a[2].s]) ELSE Null
    [] e.k = "arr" /\ e.a[1].s = sVar -> Bound(env, e.a[2].s)
    [] e.k = "arr" /\ e.a[1].s = sLet -> EvalLet(e.a, 2, env, env, props)
    [] e.k = "arr" /\ e.a[1].s = sCase -> EvalCase(e.a, 2, env, props)
    [] e.k = "arr" /\ e.a[1].s = sCoalesce -> EvalCoalesce(e.a, 2, env, props)
    [] e.k = "arr" /\ e.a[1].s = sCollator ->
         [k |-> "collator",
          cs |-> ObjGet(e.a[2], "case-sensitive", Bool(FALSE)).b,
          ds |-> ObjGet(e.a[2], "diacritic-sensitive", Bool(FALSE)).b]
    [] e.k = "arr" /\ e.a[1].s = sFormat ->
         [k |-> "formatted",
          secs |-> FormatSections([i \in 1..(Len(e.a) - 1) |->
                                     Eval(e.a[i + 1], env, props)], <<>>)]

-----------------------------------------------------------------------------
(* Locale preference: getLanguageFromURL, getLocales *)

\* String.prototype.split(sep) for a one-unit separator: the pieces between
\* the separators, "" split is [""].
RECURSIVE JsSplit(_, _)
JsSplit(s, sep) ==
  LET hits == {i \in 1..Len(s) : s[i] = sep}
  IN  IF hits = {} THEN <<s>>
      ELSE LET i == CHOOSE h \in hits : \A j \in hits : h <= j
           IN  <<SubSeq(s, 1, i - 1)>> \o JsSplit(SubSeq(s, i + 1, Len(s)), sep)

\* Array.prototype.join(sep)
RECURSIVE JsJoin(_, _)
JsJoin(parts, sep) ==
  IF parts = <<>> THEN <<>>
  ELSE IF Len(parts) = 1 THEN parts[1]
  ELSE parts[1] \o <<sep>> \o JsJoin(Tail(parts), sep)

\* new URLSearchParams(query).get(key): the query is split on "&", empty
\* pieces are skipped, a piece is split at its first "="; the value of the
\* first piece named key, or null.  (No "%" or "+" occurs in the hashes
\* considered, so decoding leaves names and values as they are.)
URLSearchParamsGet(query, key) ==
  LET pieces == JsSplit(query, "&")
      NameOf(p) == JsSplit(p, "=")[1]
      ValueOf(p) == SubSeq(p, Len(NameOf(p)) + 2, Len(p))
      hits == {i \in 1..Len(pieces) : pieces[i] # <<>> /\ NameOf(pieces[i]) = key}
  IN  IF hits = {} THEN Null
      ELSE Str(ValueOf(pieces[CHOOSE h \in hits : \A j \in hits : h <= j]))

getLanguageFromURL(url) ==
  LET language == URLSearchParamsGet(JsSlice(url.hash, 1, Len(url.hash)), sLanguage)
  IN  IF language = Str(<<>>) THEN Null ELSE language

\* AddParents without the check against the set of locales already added.
RECURSIVE AddParentsUnchecked(_, _)
AddParentsUnchecked(components, locs) ==
  IF Len(components) = 0 THEN locs
  ELSE AddParentsUnchecked(SubSeq(components, 1, Len(components) - 1),
                           Append(locs, JsJoin(components, "-")))

\* The while loop of getLocales for one locale: join, push if new, pop.
RECURSIVE AddParents(_, _)
AddParents(components, locs) ==
  IF Len(components) = 0 THEN locs
  ELSE LET parent == JsJoin(components, "-")
           hasParent == \E i \in 1..Len(locs) : locs[i] = parent
       IN  AddParents(SubSeq(components, 1, Len(components) - 1),
                      IF hasParent THEN locs ELSE Append(locs, parent))

RECURSIVE AddLocales(_, _)
AddLocales(userLocales, locs) ==
  IF userLocales = <<>> THEN locs
  ELSE AddLocales(Tail(userLocales),
                  AddParents(JsSplit(Head(userLocales), "-"), locs))

\* getLocales preferring navigator.languages to the language parameter.
getLocalesAgentFirst(env) ==
  LET language == getLanguageFromURL(env.location)
      userLocales ==
        IF env.navigator.hasLanguages THEN env.navigator.languages
        ELSE IF language.k # "null" THEN JsSplit(language.s, ",")
        ELSE <<env.navigator.language>>
  IN  AddLocales(userLocales, <<>>)

\* env: window.location and navigator
getLocales(env) ==
  LET language == getLanguageFromURL(env.location)
      userLocales ==
        IF language.k # "null" THEN JsSplit(language.s, ",")
        ELSE IF env.navigator.hasLanguages THEN env.navigator.languages
        ELSE <<env.navigator.language>>
  IN  AddLocales(userLocales, <<>>)

-----------------------------------------------------------------------------
(* getLocalizedNameExpression, updateVariable, localizeLayers *)

sNameColon == <<"n","a","m","e",":">>
sNameUnderscore == <<"n","a","m","e","_">>
sDe == <<"d","e">>
sEn == <<"e","n">>

\* NameFields adding the underscore field for every locale.
RECURSIVE NameFieldsLegacyForAll(_, _)
NameFieldsLegacyForAll(locs, includesLegacyFields) ==
  IF locs = <<>> THEN <<>>
  ELSE LET l == Head(locs)
           fields == <<sNameColon \o l>> \o
                     (IF includesLegacyFields THEN <<sNameUnderscore \o l>> ELSE <<>>)
       IN  fields \o NameFieldsLegacyForAll(Tail(locs), includesLegacyFields)

RECURSIVE NameFields(_, _)
NameFields(locs, includesLegacyFields) ==
  IF locs = <<>> THEN <<>>
  ELSE LET l == Head(locs)
           fields == <<sNameColon \o l>> \o
                     (IF includesLegacyFields /\ (l = sDe \/ l = sEn)
                      THEN <<sNameUnderscore \o l>> ELSE <<>>)
       IN  fields \o NameFields(Tail(locs), includesLegacyFields)

getLocalizedNameExpression(locs, includesLegacyFields) ==
  LET nameFields == NameFields(locs, includesLegacyFields) \o <<sName>>
  IN  Call(sCoalesce, [i \in 1..Len(nameFields) |-> Call(sGet, <<Str(nameFields[i])>>)])

\* Whether !letExpr holds: null, "", 0 and false are falsy.
Falsy(v) ==
  \/ v.k = "null"
  \/ v = Str(<<>>)
  \/ v = Num(0)
  \/ v = Bool(FALSE)

\* The node after updateVariable(letExpr, variable, value); the assignment
\* letExpr[i] = value to the index one past the end extends the array.
updateVariable(letExpr, variable, value) ==
  IF Falsy(letExpr) \/ letExpr.k # "arr" \/ letExpr.a = <<>> \/ letExpr.a[1] # Str(sLet)
  THEN letExpr
  ELSE LET variableNameIndex == ArrayIndexOf(letExpr.a, Str(variable))
       IN  IF JsRem(variableNameIndex, 2) = 1
           THEN IF variableNameIndex + 2 <= Len(letExpr.a)
                THEN Arr([letExpr.a EXCEPT ![variableNameIndex + 2] = value])
                ELSE Arr(Append(letExpr.a, value))
           ELSE letExpr

\* /^en\b/.test(locale): "en" followed by the end or a non-word code unit.
WordUnits ==
  {"a","b","c","d","e","f","g","h","i","j","k","l","m","n","o","p","q","r","s","t","u",
   "v","w","x","y","z","A","B","C","D","E","F","G","H","I","J","K","L","M","N","O","P",
   "Q","R","S","T","U","V","W","X","Y","Z","0","1","2","3","4","5","6","7","8","9","_"}
sUndefined == <<"u","n","d","e","f","i","n","e","d">>
\* /^en/.test(locale): the test without the word boundary.
TestEnAnyPrefix(locale) == Len(locale) >= 2 /\ SubSeq(locale, 1, 2) = sEn
TestEn(locale) ==
  /\ Len(locale) >= 2
  /\ SubSeq(locale, 1, 2) = sEn
  /\ (Len(locale) = 2 \/ locale[3] \notin WordUnits)

collatorExpression(diacriticSensitive, locale) ==
  Call(sCollator,
    <<Obj(<< <<"case-sensitive", Bool(FALSE)>>,
             <<"diacritic-sensitive", Bool(diacriticSensitive)>>,
             <<"locale", locale>> >>)>>)

\* The body of localizeLayers's loop for one layer, on the heap of arrays.
LocalizeLayer(h, layer, locs) ==
  IF ~layer.hasTextField THEN h
  ELSE LET first == IF locs = <<>> THEN Null ELSE Str(locs[1])
           firstText == IF locs = <<>> THEN sUndefined ELSE locs[1]
           t1 == updateVariable(h[layer.textField], sLocalizedName,
                   getLocalizedNameExpression(locs,
                     layer.sourceLayer = sTransportationName))
           t2 == updateVariable(t1, sLocalizedCollator, collatorExpression(TRUE, first))
           t3 == updateVariable(t2, sDiacriticInsensitiveCollator,
                   collatorExpression(~TestEn(firstText), first))
       IN  [h EXCEPT ![layer.textField] = t3]

RECURSIVE localizeLayers(_, _, _)
localizeLayers(h, lyrs, locs) ==
  IF lyrs = <<>> THEN h
  ELSE localizeLayers(LocalizeLayer(h, Head(lyrs), locs), Tail(lyrs), locs)

-----------------------------------------------------------------------------
(* Driver state shared by the specifications: what an operation under study  *)
(* does not touch stays as below.                                            *)

NoInput == [op |-> "none"]
NoBrowser ==
  [location |-> [hash |-> <<>>],
   navigator |-> [hasLanguages |-> FALSE, languages |-> <<>>, language |-> <<>>]]
NoFeature == <<>>
NoStyle == [given |-> FALSE]

IdleStrings == rin = NoInput /\ rout = Null
IdleBuild == heap = <<>> /\ layers = <<>> /\ locales = <<>> /\ browser = NoBrowser
IdleRender == feature = NoFeature /\ rendered = Null
IdleUpdate == uin = NoInput /\ unode = Null
IdleStyle == style = NoStyle

-----------------------------------------------------------------------------
(* SpecStrings: replaceExpression and listValuesExpression, each built for   *)
(* an input and evaluated on a feature whose name holds the string.          *)

MaxHaystackLen == 4
MaxNeedleLen == 2
MaxReplacementLen == 1
MaxReplacements == 3
MaxListLen == 4

ReplaceAlphabet == {"a", "b"}
ListAlphabet == {"A", ";", "X91", "FFFC", "X92"}

ReplaceInputs ==
  [op : {"replace"},
   haystack : SeqsUpTo(ReplaceAlphabet, MaxHaystackLen),
   needle : SeqsUpTo(ReplaceAlphabet, MaxNeedleLen) \ {<<>>},
   needleIsExpression : BOOLEAN,
   replacement : SeqsUpTo(ReplaceAlphabet, MaxReplacementLen),
   numReplacements : 0..MaxReplacements]

\* unit repeated n times
RECURSIVE Repeat(_, _)
Repeat(unit, n) == IF n = 0 THEN <<>> ELSE unit \o Repeat(unit, n - 1)

\* Lists with up to one separator more than listValuesExpression has room for.
LongLists ==
  UNION {{Repeat(<<"A", ";">>, n), Repeat(<<"A", ";", ";">>, n),
          Repeat(<<"A", ";", ";", "B", ";">>, n), Repeat(<<";", ";", ";">>, n)}
         : n \in 0..maxValueListLength}

\* "\n" and " • ": the separators the module's templates pass.
Separators == {<<"LF">>, <<" ", "BULLET", " ">>}

ListInputs ==
  [op : {"list"},
   valueList : SeqsUpTo(ListAlphabet, MaxListLen) \cup LongLists
               \cup {<<"A", ";", ";", "B", ";", "C">>},
   separator : Separators]

sNeedle == <<"n","e","e","d","l","e">>

InitStrings ==
  /\ pc = "start"
  /\ rin \in ReplaceInputs \cup ListInputs
  /\ rout = Null
  /\ IdleBuild /\ IdleRender /\ IdleUpdate /\ IdleStyle

\* replaceExpression(["get", "name"], needle, replacement, 0, K), evaluated.
ReplaceCall ==
  /\ pc = "start"
  /\ rin.op = "replace"
  /\ LET needle == IF rin.needleIsExpression
                   THEN Call(sGet, <<Str(sNeedle)>>) ELSE Str(rin.needle)
         props == (sName :> rin.haystack) @@ (sNeedle :> rin.needle)
     IN  rout' = Eval(replaceExpression(getName, needle, Str(rin.replacement), Num(0),
                                        rin.numReplacements),
                      NoBindings, props)
  /\ pc' = "done"
  /\ UNCHANGED <<rin, heap, layers, locales, browser, feature, rendered, uin, unode, style>>

\* listValuesExpression(["get", "name"], separator), evaluated.
ListValuesCall ==
  /\ pc = "start"
  /\ rin.op = "list"
  /\ rout' = Eval(listValuesExpression(getName, Str(rin.separator)), NoBindings,
                  (sName :> rin.valueList))
  /\ pc' = "done"
  /\ UNCHANGED <<rin, heap, layers, locales, browser, feature, rendered, uin, unode, style>>

NextStrings == ReplaceCall \/ ListValuesCall

SpecStrings == InitStrings /\ [][NextStrings]_vars

-----------------------------------------------------------------------------
(* What the claims about the string operations say, stated on strings by a  *)
(* scan over the code units.                                                 *)

StartsWith(s, p) == Len(p) <= Len(s) /\ SubSeq(s, 1, Len(p)) = p
Drop(s, n) == SubSeq(s, n + 1, Len(s))
Contains(s, p) == \E i \in 0..(Len(s) - Len(p)) : SubSeq(s, i + 1, i + Len(p)) = p

\* Number of occurrences of n in h, scanning left to right and resuming just
\* after each matched region.
RECURSIVE Occurrences(_, _)
Occurrences(h, n) ==
  IF Len(h) < Len(n) THEN 0
  ELSE IF StartsWith(h, n) THEN 1 + Occurrences(Drop(h, Len(n)), n)
  ELSE Occurrences(Tail(h), n)

\* Length of the part of h up to the end of its m-th occurrence of n.
RECURSIVE ThroughOccurrence(_, _, _)
ThroughOccurrence(h, n, m) ==
  IF m = 0 THEN 0
  ELSE IF StartsWith(h, n) THEN Len(n) + ThroughOccurrence(Drop(h, Len(n)), n, m - 1)
  ELSE 1 + ThroughOccurrence(Tail(h), n, m)

\* h with every occurrence of n replaced by r.
RECURSIVE AllReplaced(_, _, _)
AllReplaced(h, n, r) ==
  IF Len(h) < Len(n) THEN h
  ELSE IF StartsWith(h, n) THEN r \o AllReplaced(Drop(h, Len(n)), n, r)
  ELSE <<Head(h)>> \o AllReplaced(Tail(h), n, r)

\* h with its m leftmost occurrences of n replaced by r and the text after
\* the m-th occurrence kept as it is.
LeftmostReplaced(h, n, r, m) ==
  LET cut == ThroughOccurrence(h, n, m)
  IN  AllReplaced(SubSeq(h, 1, cut), n, r) \o Drop(h, cut)

\* C1: replaceExpression(H, N, R, 0, K) evaluates to H with exactly min(c, K)
\* occurrences of N replaced by R, c being the number of occurrences found
\* left to right: the leftmost ones are replaced, the text after the last
\* replaced one is H's, every occurrence is replaced when K >= c, and K = 0
\* gives H.
C1_ReplacesLeftmostMinCK ==
  (pc = "done" /\ rin.op = "replace") =>
    LET c == Occurrences(rin.haystack, rin.needle)
        m == Min2(c, rin.numReplacements)
    IN  /\ rout = Str(LeftmostReplaced(rin.haystack, rin.needle, rin.replacement, m))
        /\ rin.numReplacements >= c =>
             rout = Str(AllReplaced(rin.haystack, rin.needle, rin.replacement))
        /\ rin.numReplacements = 0 => rout = Str(rin.haystack)

\* A call that truncates: more occurrences than K, K of them replaced.
C1_Witness ==
  /\ pc = "done" /\ rin.op = "replace"
  /\ rin.haystack = <<"a", "a", "a", "a">> /\ rin.needle = <<"a">>
  /\ rin.replacement = <<"b">> /\ rin.numReplacements = 2
  /\ rout = Str(<<"b", "b", "a", "a">>)

\* The list with every unescaped ";" replaced by sep and every ";;" decoded to
\* one ";".
RECURSIVE Decoded(_, _)
Decoded(list, sep) ==
  IF list = <<>> THEN <<>>
  ELSE IF StartsWith(list, <<";", ";">>) THEN <<";">> \o Decoded(Drop(list, 2), sep)
  ELSE IF Head(list) = ";" THEN sep \o Decoded(Tail(list), sep)
  ELSE <<Head(list)>> \o Decoded(Tail(list), sep)

RECURSIVE EscapedDelimiters(_)
EscapedDelimiters(list) ==
  IF list = <<>> THEN 0
  ELSE IF StartsWith(list, <<";", ";">>) THEN 1 + EscapedDelimiters(Drop(list, 2))
  ELSE EscapedDelimiters(Tail(list))

RECURSIVE UnescapedDelimiters(_)
UnescapedDelimiters(list) ==
  IF list = <<>> THEN 0
  ELSE IF StartsWith(list, <<";", ";">>) THEN UnescapedDelimiters(Drop(list, 2))
  ELSE (IF Head(list) = ";" THEN 1 ELSE 0) + UnescapedDelimiters(Tail(list))

\* C2: for a list without the placeholder sequence and with at most 8 escaped
\* and at most 8 unescaped delimiters, listValuesExpression(list, separator)
\* evaluates to the list with every unescaped ";" replaced by the separator
\* and every ";;" decoded to ";"; "A;;B;C" with " • " gives "A;B • C".
C2_ListValuesDecoded ==
  /\ (/\ pc = "done" /\ rin.op = "list"
      /\ ~Contains(rin.valueList, objReplacementChar)
      /\ EscapedDelimiters(rin.valueList) <= maxValueListLength - 1
      /\ UnescapedDelimiters(rin.valueList) <= maxValueListLength - 1)
     => rout = Str(Decoded(rin.valueList, rin.separator))
  /\ (/\ pc = "done" /\ rin.op = "list"
      /\ rin.valueList = <<"A", ";", ";", "B", ";", "C">>
      /\ rin.separator = <<" ", "BULLET", " ">>)
     => rout = Str(<<"A", ";", "B", " ", "BULLET", " ", "C">>)

\* Eight escaped and eight unescaped delimiters, all of them handled.
C2_Witness ==
  /\ pc = "done" /\ rin.op = "list"
  /\ rin.valueList = Repeat(<<"A", ";", ";", "B", ";">>, maxValueListLength - 1)
  /\ rin.separator = <<" ", "BULLET", " ">>
  /\ rout = Str(Repeat(<<"A", ";", "B", " ", "BULLET", " ">>, maxValueListLength - 1))

-----------------------------------------------------------------------------
(* SpecSize: replaceExpression built for a maximum number of replacements;   *)
(* the tree it returns is kept as built, to be measured.                     *)

MaxSizeReplacements == 3

SizeHaystacks == {getName, varLocalizedName, Call(sCoalesce, <<getName, Str(<<>>)>>)}
SizeNeedles == {Str(<<";">>), Str(<<"a", "b">>), Call(sGet, <<Str(sNeedle)>>)}
SizeReplacements == {Str(<<>>), Str(<<"a">>), Call(sGet, <<Str(sNeedle)>>)}
SizeStarts == {Num(0), Num(2), Call(sLength, <<getName>>)}

SizeInputs ==
  [op : {"size"},
   haystack : SizeHaystacks,
   needle : SizeNeedles,
   replacement : SizeReplacements,
   haystackStart : SizeStarts,
   numReplacements : 0..MaxSizeReplacements]

InitSize ==
  /\ pc = "start"
  /\ rin \in SizeInputs
  /\ rout = Null
  /\ IdleBuild /\ IdleRender /\ IdleUpdate /\ IdleStyle

\* replaceExpression(haystack, needle, replacement, haystackStart, K).
ReplaceBuild ==
  /\ pc = "start"
  /\ rout' = replaceExpression(rin.haystack, rin.needle, rin.replacement,
                               rin.haystackStart, rin.numReplacements)
  /\ pc' = "done"
  /\ UNCHANGED <<rin, heap, layers, locales, browser, feature, rendered, uin, unode, style>>

NextSize == ReplaceBuild

SpecSize == InitSize /\ [][NextSize]_vars

\* The positions of the nodes of an expression as it is serialized, each the
\* path of indices leading to it: every array, string, number, boolean and
\* null is a node, every occurrence apart.
RECURSIVE Positions(_)
Positions(node) ==
  IF node.k = "arr"
  THEN {<<>>} \cup UNION {{<<i>> \o p : p \in Positions(node.a[i])} : i \in 1..Len(node.a)}
  ELSE IF node.k = "obj"
  THEN {<<>>} \cup UNION {{<<i>> \o p : p \in Positions(node.f[i][2])} : i \in 1..Len(node.f)}
  ELSE IF node.k = "ref" THEN Positions(Deref(node.id))
  ELSE {<<>>}

\* The number of nodes.
Size(node) == Cardinality(Positions(node))

\* The size of the tree for the inputs of the call and k replacements.
SizeFor(k) ==
  Size(replaceExpression(rin.haystack, rin.needle, rin.replacement, rin.haystackStart, k))

-----------------------------------------------------------------------------
(* SpecLocales: the page is loaded in some browser, getLocales resolves the  *)
(* locale chain, getLocalizedNameExpression builds the name expression for   *)
(* it, and the evaluator evaluates the expression on a feature.              *)

MaxOverrideLocales == 2
MaxAgentLocales == 1

tEnUS == <<"e","n","-","U","S">>
tZhHantTW == <<"z","h","-","H","a","n","t","-","T","W">>
tZhHant == <<"z","h","-","H","a","n","t">>
tZh == <<"z","h">>
tPtBR == <<"p","t","-","B","R">>
tFr == <<"f","r">>

OverrideTags == {sEn, sDe, tEnUS, tZhHantTW, <<>>}
AgentTags == {sDe, tZhHant, tPtBR}

\* "#language=<list>", alone or after another parameter; hashes without the
\* parameter; "#language" without a value.
Hashes ==
  {<<>>, <<"#">>, <<"#", "m", "=", "1">>, <<"#">> \o sLanguage}
  \cup {<<"#">> \o pre \o sLanguage \o <<"=">> \o JsJoin(l, ",") :
          pre \in {<<>>, <<"m", "=", "1", "&">>},
          l \in SeqsUpTo(OverrideTags, MaxOverrideLocales)}

Navigators ==
  [hasLanguages : {TRUE}, languages : SeqsUpTo(AgentTags, MaxAgentLocales),
   language : {sDe}]
  \cup [hasLanguages : {FALSE}, languages : {<<>>}, language : AgentTags]

Browsers == [location : [hash : Hashes], navigator : Navigators]

\* A feature whose present fields each hold their own key as value.
FeatureWith(fields) == [f \in fields |-> f]

NameFeatures ==
  {FeatureWith(fs) :
     fs \in {{}, {sName}, {sNameColon \o sEn, sName}, {sNameUnderscore \o sEn, sName},
             {sNameUnderscore \o sDe, sNameColon \o tZhHant},
             {sNameColon \o sDe, sNameUnderscore \o sDe, sName},
             {sNameColon \o tZh, sNameUnderscore \o sEn},
             {sNameColon \o tPtBR, sNameUnderscore \o tEnUS}}}

InitLocales ==
  /\ pc = "start"
  /\ browser \in Browsers
  /\ heap = <<>> /\ layers = <<>> /\ locales = <<>>
  /\ IdleStrings /\ IdleRender /\ IdleUpdate /\ IdleStyle

GetLocales ==
  /\ pc = "start"
  /\ locales' = getLocales(browser)
  /\ pc' = "located"
  /\ UNCHANGED <<rin, rout, heap, layers, browser, feature, rendered, uin, unode, style>>

NameExpressionCall ==
  /\ pc = "located"
  /\ \E includesLegacyFields \in BOOLEAN :
       /\ rin' = [op |-> "name", includesLegacyFields |-> includesLegacyFields]
       /\ rout' = getLocalizedNameExpression(locales, includesLegacyFields)
  /\ pc' = "built"
  /\ UNCHANGED <<heap, layers, locales, browser, feature, rendered, uin, unode, style>>

EvaluateName ==
  /\ pc = "built"
  /\ \E f \in NameFeatures :
       /\ feature' = f
       /\ rendered' = Eval(rout, NoBindings, f)
  /\ pc' = "done"
  /\ UNCHANGED <<rin, rout, heap, layers, locales, browser, uin, unode, style>>

NextLocales == GetLocales \/ NameExpressionCall \/ EvaluateName

SpecLocales == InitLocales /\ [][NextLocales]_vars

-----------------------------------------------------------------------------
(* What the claims about locales and the name expression say. *)

\* The value of the hash's first "language" parameter: found by scanning for
\* the parameter's name at the start of the query or after a "&".
HashOverride(hash) ==
  LET query == Drop(hash, 1)
      IsAt(i) == /\ i = 1 \/ query[i - 1] = "&"
                 /\ StartsWith(Drop(query, i - 1), sLanguage)
                 /\ \/ i + Len(sLanguage) > Len(query)
                    \/ query[i + Len(sLanguage)] \in {"=", "&"}
      starts == {i \in 1..Len(query) : IsAt(i)}
      first == CHOOSE i \in starts : \A j \in starts : i <= j
      from == first + Len(sLanguage) + 1
      stops == {j \in from..Len(query) : query[j] = "&"}
      to == IF stops = {} THEN Len(query)
            ELSE (CHOOSE j \in stops : \A k \in stops : j <= k) - 1
  IN  IF starts = {} THEN [present |-> FALSE, value |-> <<>>]
      ELSE IF first + Len(sLanguage) <= Len(query) /\ query[first + Len(sLanguage)] = "="
      THEN [present |-> TRUE, value |-> SubSeq(query, from, to)]
      ELSE [present |-> TRUE, value |-> <<>>]

AgentList(nav) == IF nav.hasLanguages THEN nav.languages ELSE <<nav.language>>

\* The base list: the override split on commas when it is present and not
\* empty, else the agent's list.
BaseList(b) ==
  LET o == HashOverride(b.location.hash)
  IN  IF o.present /\ o.value # <<>> THEN JsSplit(o.value, ",") ELSE AgentList(b.navigator)

\* The tag, then its prefixes before each hyphen, longest first.
RECURSIVE PrefixesBeforeHyphens(_, _)
PrefixesBeforeHyphens(tag, i) ==
  IF i = 0 THEN <<>>
  ELSE IF tag[i] = "-" THEN <<SubSeq(tag, 1, i - 1)>> \o PrefixesBeforeHyphens(tag, i - 1)
  ELSE PrefixesBeforeHyphens(tag, i - 1)

TagAndParents(tag) == <<tag>> \o PrefixesBeforeHyphens(tag, Len(tag))

RECURSIVE AllTagsAndParents(_)
AllTagsAndParents(tags) ==
  IF tags = <<>> THEN <<>> ELSE TagAndParents(Head(tags)) \o AllTagsAndParents(Tail(tags))

\* The entries of s in order, each kept at its first occurrence only.
FirstOccurrences(s) ==
  LET keep == {i \in 1..Len(s) : \A j \in 1..(i - 1) : s[j] # s[i]}
      RECURSIVE Pick(_)
      Pick(i) == IF i > Len(s) THEN <<>>
                 ELSE (IF i \in keep THEN <<s[i]>> ELSE <<>>) \o Pick(i + 1)
  IN  Pick(1)

\* C6: getLocalizedNameExpression returns coalesce of, in chain order, a get
\* of name:<tag> per chain entry, a get of name_<tag> right after it only for
\* de and en and only with the legacy flag, and a get of name last; evaluated
\* on a feature it gives the first present field in that order, null when
\* none is present.
C6_NameExpressionOrder ==
  (pc \in {"built", "done"}) =>
    LET legacy == rin.includesLegacyFields
        Special(i) == legacy /\ locales[i] \in {sDe, sEn}
        \* index (among the arguments) of the get of the i-th entry's name:<tag>
        At(i) == i + Cardinality({j \in 1..(i - 1) : Special(j)})
        n == Len(locales) + Cardinality({j \in 1..Len(locales) : Special(j)}) + 1
        args == Tail(rout.a)
        present == {i \in 1..Len(args) : args[i].a[2].s \in DOMAIN feature}
    IN  /\ rout.k = "arr" /\ rout.a[1] = Str(sCoalesce)
        /\ Len(args) = n
        /\ \A i \in 1..Len(locales) :
             /\ args[At(i)] = Arr(<<Str(sGet), Str(sNameColon \o locales[i])>>)
             /\ Special(i) =>
                  args[At(i) + 1] = Arr(<<Str(sGet), Str(sNameUnderscore \o locales[i])>>)
        /\ args[n] = Arr(<<Str(sGet), Str(sName)>>)
        /\ pc = "done" =>
             rendered = IF present = {} THEN Null
                        ELSE LET i == CHOOSE p \in present : \A q \in present : p <= q
                             IN  Str(feature[args[i].a[2].s])

\* A legacy name_en is what names a feature that has no name:en, ahead of name.
C6_Witness ==
  /\ pc = "done"
  /\ rin.includesLegacyFields
  /\ locales = <<tEnUS, sEn, sDe>>
  /\ feature = FeatureWith({sNameUnderscore \o sEn, sName})
  /\ rendered = Str(sNameUnderscore \o sEn)

\* C7: getLocales returns, for the base list, each tag followed by its
\* parents (the last hyphen-delimited component dropped repeatedly), an
\* entry appended only if not yet in the chain: no entry repeats and first-seen
\* order is kept; zh-Hant-TW alone gives zh-Hant-TW, zh-Hant, zh.
C7_ChainOfParents ==
  (pc # "start") =>
    /\ locales = FirstOccurrences(AllTagsAndParents(BaseList(browser)))
    /\ \A i, j \in 1..Len(locales) : locales[i] = locales[j] => i = j
    /\ BaseList(browser) = <<tZhHantTW>> => locales = <<tZhHantTW, tZhHant, tZh>>

\* A list whose second tag's parent was already added by its first tag.
C7_Witness ==
  /\ pc = "located"
  /\ browser.location.hash = <<"#">> \o sLanguage \o <<"=">> \o tZhHantTW \o <<",">> \o tEnUS
  /\ locales = <<tZhHantTW, tZhHant, tZh, tEnUS, sEn>>

\* C8: the base list of getLocales is the override split on commas when the
\* language override is present and not empty (the agent's list is ignored),
\* and the agent's list when the override is empty or missing.
C8_OverrideOrAgent ==
  (pc # "start") =>
    LET o == HashOverride(browser.location.hash)
    IN  /\ (o.present /\ o.value # <<>>) =>
             locales = AddLocales(JsSplit(o.value, ","), <<>>)
        /\ (~o.present \/ o.value = <<>>) =>
             locales = AddLocales(AgentList(browser.navigator), <<>>)

\* An override after another parameter wins over the agent's list.
C8_Witness ==
  /\ pc = "located"
  /\ browser.location.hash = <<"#", "m", "=", "1", "&">> \o sLanguage \o <<"=">> \o sEn
  /\ browser.navigator.hasLanguages /\ browser.navigator.languages = <<tPtBR>>
  /\ locales = <<sEn>>

\* C14: getLanguageFromURL returns, for a hash whose language override is
\* present but empty, a result different from the one it returns for a hash
\* without the override, while getLocales gives the same chain for both.
C14_EmptyDistinctFromAbsent ==
  (pc = "located" /\ HashOverride(browser.location.hash) = [present |-> TRUE, value |-> <<>>])
  => \A absent \in {h \in Hashes : ~HashOverride(h).present} :
       /\ locales = getLocales([browser EXCEPT !.location.hash = absent])
       /\ getLanguageFromURL(browser.location) # getLanguageFromURL([hash |-> absent])

-----------------------------------------------------------------------------
(* SpecUpdate: updateVariable applied once to a node.                        *)

MaxBindings == 2

sX == <<"x">>

UpdateNames == {sLocalizedName, sLocalizedCollator, sX}
UpdateValues == {Str(<<>>), Str(sLocalizedName), Call(sCollator, <<Obj(<<>>)>>)}
UpdateBodies == {varLocalizedName, Str(sLocalizedName), Str(<<>>)}

\* The (name, value) pairs of a let, flattened: at most n pairs.
RECURSIVE PairLists(_)
PairLists(n) ==
  IF n = 0 THEN {<<>>}
  ELSE LET shorter == PairLists(n - 1)
       IN  shorter \cup {l \o <<Str(name), value>> :
                           l \in shorter, name \in UpdateNames, value \in UpdateValues}

LetNodes == {Call(sLet, l \o <<body>>) : l \in PairLists(MaxBindings), body \in UpdateBodies}

OtherNodes ==
  {Null, Str(<<>>), Str(sLet), Str(sLocalizedName), Num(0), Num(1), Bool(FALSE),
   Obj(<<>>), Arr(<<>>), getName, varLocalizedName,
   Call(sCoalesce, <<Str(sLocalizedName), Str(<<>>)>>),
   Call(sConcat, <<Str(sLet), Str(sLocalizedName), Str(<<>>), Str(<<>>)>>)}

UpdateInputs ==
  [op : {"update"},
   letExpr : LetNodes \cup OtherNodes,
   variable : {sLocalizedName, sLocalizedCollator},
   value : {Call(sCoalesce, <<getName>>), Str(sX)}]

InitUpdate ==
  /\ pc = "start"
  /\ uin \in UpdateInputs
  /\ unode = uin.letExpr
  /\ IdleStrings /\ IdleBuild /\ IdleRender /\ IdleStyle

UpdateVariableCall ==
  /\ pc = "start"
  /\ unode' = updateVariable(unode, uin.variable, uin.value)
  /\ pc' = "done"
  /\ UNCHANGED <<rin, rout, heap, layers, locales, browser, feature, rendered, uin, style>>

NextUpdate == UpdateVariableCall

SpecUpdate == InitUpdate /\ [][NextUpdate]_vars

IsLet(node) == node.k = "arr" /\ node.a # <<>> /\ node.a[1] = Str(sLet)

\* The positions (in a let array, counting "let" as the first) that hold the
\* names of its (name, value) pairs: every second one, short of the body.
NamePositions(node) == {i \in 2..(Len(node.a) - 2) : i % 2 = 0}

\* C9: updateVariable applied to a node that is not a let expression, or to a
\* let expression whose binding names do not include the target name, leaves
\* the node and every element of it unchanged.
C9_NoOpWithoutBinding ==
  (/\ pc = "done"
   /\ \/ ~IsLet(uin.letExpr)
      \/ \A i \in NamePositions(uin.letExpr) : uin.letExpr.a[i] # Str(uin.variable))
  => unode = uin.letExpr

\* C10: if the target name is at the name position of some pair, updateVariable
\* overwrites that pair's value (the first such pair's) with the new value and
\* changes nothing else, whatever the values of the other pairs are.
C10_OverwritesNamedPair ==
  (/\ pc = "done"
   /\ IsLet(uin.letExpr)
   /\ \E i \in NamePositions(uin.letExpr) : uin.letExpr.a[i] = Str(uin.variable))
  => LET hits == {i \in NamePositions(uin.letExpr) : uin.letExpr.a[i] = Str(uin.variable)}
         first == CHOOSE i \in hits : \A j \in hits : i <= j
     IN  unode = Arr([uin.letExpr.a EXCEPT ![first + 1] = uin.value])

\* C11: updateVariable is update-only: for every let expression (also one
\* whose body is a string equal to the target name), every target name and
\* every value, the let has as many elements after the call as before it and
\* its body (its last element) is the same; no slot is ever added.
C11_UpdateOnly ==
  (pc = "done" /\ IsLet(uin.letExpr)) =>
    /\ unode.k = "arr"
    /\ Len(unode.a) = Len(uin.letExpr.a)
    /\ unode.a[Len(unode.a)] = uin.letExpr.a[Len(uin.letExpr.a)]

-----------------------------------------------------------------------------
(* SpecGloss: a style with one label layer whose text-field is the exported  *)
(* localizedNameWithLocalGloss array is localized for a locale chain, and    *)
(* the evaluator then renders the layer's text-field for a feature.          *)

MaxLocalizedLen == 3
MaxLocalLen == 1

GlossAlphabet == {"e", "e'", " ", ","}

sPlace == <<"p","l","a","c","e">>
sMontreal == <<"M","o","n","t","r","e","a","l">>
sMontrealLocal == <<"M","o","n","t","r","e'","a","l">>
sTokyo == <<"T","o","k","y","o">>
sTokyoLocal == <<"KAN","KAN">>

\* (localized name, local name) pairs beyond the short ones: the spec's
\* examples, names differing in case, and names holding ";" and ";;".
NamedPairs ==
  {<<sMontreal, sMontrealLocal>>, <<sTokyo, sTokyoLocal>>,
   <<sMontreal \o <<",", " ", "E">>, sMontrealLocal>>,
   <<<<"E">>, <<"e">>>>, <<<<"e", "E">>, <<"E", "e">>>>, <<<<"E", " ", "e">>, <<"e'">>>>,
   <<<<"e", " ", "E", "e">>, <<"e", "e'">>>>, <<<<"E", "e'", ",", "e">>, <<"e", "E">>>>,
   <<<<"e", ";", "E">>, <<"e", ";", "e">>>>, <<<<"e", ";", "e", " ", "e">>, <<"e", ";", "e">>>>,
   <<<<"e", " ", "e", ";", "e">>, <<"e", ";", "e">>>>,
   <<<<";", ";", "e", " ">>, <<";", ";", "e">>>>, <<<<";", ";", " ", "e">>, <<";", ";">>>>,
   <<<<"e", " ", ";", ";">>, <<";", ";">>>>, <<<<"e", "e", " ", "e", ";", ";">>, <<"e", ";", ";">>>>,
   <<<<"e", ";", ";", "e">>, <<"e", ";", ";", "e">>>>, <<<<"E", ";", ";", "e">>, <<"e", ";", ";", "e">>>>}

GlossPairs ==
  NamedPairs \cup
  (SeqsUpTo(GlossAlphabet, MaxLocalizedLen) \X SeqsUpTo(GlossAlphabet, MaxLocalLen))

GlossChains == {<<tEnUS, sEn>>, <<tFr>>}

\* The layer's text-field refers to the one exported array.
GlossLayer ==
  [sourceLayer |-> sPlace, hasTextField |-> TRUE,
   textField |-> "localizedNameWithLocalGloss"]

\* The field of the chain's last entry holds the localized name, name the
\* local one.
GlossFeature(chain, pair) ==
  (sNameColon \o chain[Len(chain)] :> pair[1]) @@ (sName :> pair[2])

InitGloss ==
  /\ pc = "start"
  /\ heap = [t \in {"localizedNameWithLocalGloss"} |-> localizedNameWithLocalGloss]
  /\ layers = <<GlossLayer>>
  /\ locales \in GlossChains
  /\ browser = NoBrowser
  /\ IdleStrings /\ IdleRender /\ IdleUpdate /\ IdleStyle

LocalizeLayersCall ==
  /\ pc = "start"
  /\ heap' = localizeLayers(heap, layers, locales)
  /\ pc' = "localized"
  /\ UNCHANGED <<rin, rout, layers, locales, browser, feature, rendered, uin, unode, style>>

Render ==
  /\ pc = "localized"
  /\ \E pair \in GlossPairs :
       /\ feature' = GlossFeature(locales, pair)
       /\ rendered' = Eval(heap[layers[1].textField], NoBindings, feature')
  /\ pc' = "done"
  /\ UNCHANGED <<rin, rout, heap, layers, locales, browser, uin, unode, style>>

NextGloss == LocalizeLayersCall \/ Render

SpecGloss == InitGloss /\ [][NextGloss]_vars

-----------------------------------------------------------------------------
(* What the claims about the gloss composer say. *)

\* The localized and the local name of the feature being rendered.
LocalizedOf(f) == f[sNameColon \o locales[Len(locales)]]
LocalOf(f) == f[sName]

\* The scope the body of the layer's text-field is evaluated in: the values
\* its let binds, as they are after localizeLayers.
GlossScope ==
  LET t == heap[layers[1].textField].a
  IN  [i \in 1..((Len(t) - 2) \div 2) |->
         <<t[2 * i].s, Eval(t[2 * i + 1], NoBindings, feature)>>]

\* The value of an expression of the body in that scope, the scope computed
\* once; and the value of one of its tests.
InScope(e) == CHOOSE v \in {Eval(e, scope, feature) : scope \in {GlossScope}} : TRUE
TestValue(test) == InScope(test).b

\* All the text of a formatted value; and the text a reader sees: without
\* the sections scaled to 0.001 and without zero-width spaces.
RECURSIVE SectionsText(_, _)
SectionsText(secs, visibleOnly) ==
  IF secs = <<>> THEN <<>>
  ELSE (IF visibleOnly /\ Head(secs).scale = 1 THEN <<>>
        ELSE IF visibleOnly THEN SelectSeq(Head(secs).text, LAMBDA c : c # "ZWSP")
        ELSE Head(secs).text)
       \o SectionsText(Tail(secs), visibleOnly)

Text(v) == SectionsText(v.secs, FALSE)
Visible(v) == SectionsText(v.secs, TRUE)

sLF == <<"LF">>
sBullet == <<" ", "BULLET", " ">>

\* C3: localizedNameWithLocalGloss tests exact match, prefix, suffix in that
\* order and renders only the first branch whose test holds: a localized name
\* equal to the local name under the case-insensitive, diacritic-sensitive
\* collator is rendered alone, and when none of the three tests holds the
\* localized name is followed by the local name in parentheses ("Tokyo",
\* then the local name in parentheses, for a local name in another script).
C3_FirstBranchWins ==
  (pc = "done") =>
    LET ln == LocalizedOf(feature)
        nm == LocalOf(feature)
        exact == CollatorEqual(ln, nm, [cs |-> FALSE, ds |-> TRUE])
    IN  \A prefix \in {TestValue(glossPrefixTest)}, suffix \in {TestValue(glossSuffixTest)} :
          /\ exact =>
               rendered = [k |-> "formatted",
                           secs |-> <<[text |-> Decoded(ln, sLF), scale |-> 1000]>>]
          /\ (~exact /\ prefix) => rendered = InScope(glossPrefixOutput)
          /\ (~exact /\ ~prefix /\ suffix) => rendered = InScope(glossSuffixOutput)
          /\ (~exact /\ ~prefix /\ ~suffix) =>
               Visible(rendered) = ln \o sLF \o <<"(">> \o Decoded(nm, sBullet) \o <<")">>
          /\ (ln = sTokyo /\ nm = sTokyoLocal) =>
               Visible(rendered) = sTokyo \o <<"LF", "(", "KAN", "KAN", ")">>

\* Names equal but for case are an exact match: the localized one is rendered.
C3_Witness ==
  /\ pc = "done"
  /\ LocalizedOf(feature) = <<"e", "E">> /\ LocalOf(feature) = <<"E", "e">>
  /\ Text(rendered) = <<"e", "E">>

\* C4: the prefix test holds exactly when the first length(local) code units
\* of the localized name equal the local name under the collator bound to
\* diacriticInsensitiveCollator and the code unit after that span is a space,
\* a comma or the end of the string; the result is then the local-language
\* spelling followed by the unchanged remainder of the localized name, so
\* localized "Montreal" with local "Montréal" renders "Montréal" (for an
\* English chain, whose collator folds diacritics).
C4_PrefixOverwritten ==
  (pc = "done") =>
    LET ln == LocalizedOf(feature)
        nm == LocalOf(feature)
        coll == Bound(GlossScope, sDiacriticInsensitiveCollator)
        matches == /\ Len(nm) <= Len(ln)
                   /\ CollatorEqual(SubSeq(ln, 1, Len(nm)), nm, coll)
                   /\ Len(ln) = Len(nm) \/ ln[Len(nm) + 1] \in {" ", ","}
    IN  /\ TestValue(glossPrefixTest) <=> matches
        /\ (matches /\ ~TestValue(glossExactTest)) =>
             Text(rendered) = Decoded(nm, sLF) \o Drop(ln, Len(nm))
        /\ (ln = sMontreal /\ nm = sMontrealLocal /\ locales[1] = tEnUS) =>
             Text(rendered) = sMontrealLocal

\* The collator bound to diacriticInsensitiveCollator, and the length of the
\* localized name short of the local name's.
SuffixCollator == Bound(GlossScope, sDiacriticInsensitiveCollator)
SuffixStart == Len(LocalizedOf(feature)) - Len(LocalOf(feature))

-----------------------------------------------------------------------------
(* SpecBuilds: a style whose layers take the exported arrays as their        *)
(* text-field is localized for a locale chain and given to the map; the      *)
(* language then changes and the same layers are localized again.            *)

MaxLayers == 2

tEnm == <<"e","n","m">>

Templates == {"localizedName", "localizedNameInline", "localizedNameWithLocalGloss"}

\* The exported arrays as the module creates them.
ExportedTemplates ==
  [t \in Templates |->
     CASE t = "localizedName" -> localizedName
       [] t = "localizedNameInline" -> localizedNameInline
       [] t = "localizedNameWithLocalGloss" -> localizedNameWithLocalGloss]

BuildSourceLayers == {sTransportationName, sPlace}

\* A layer either takes one of the exported arrays as its text-field or has
\* no text-field.
BuildLayers ==
  {[sourceLayer |-> sl, hasTextField |-> TRUE, textField |-> t] :
     sl \in BuildSourceLayers, t \in Templates}
  \cup {[sourceLayer |-> sl, hasTextField |-> FALSE, textField |-> "none"] :
          sl \in BuildSourceLayers}

LayerLists == SeqsUpTo(BuildLayers, MaxLayers) \ {<<>>}

BuildChains == {<<tEnUS, sEn>>, <<sEn>>, <<tFr>>, <<sDe, tFr>>, <<tEnm>>, <<>>}

InitBuilds ==
  /\ pc = "start"
  /\ heap = ExportedTemplates
  /\ layers \in LayerLists
  /\ locales \in BuildChains
  /\ browser = NoBrowser
  /\ IdleStrings /\ IdleRender /\ IdleUpdate /\ IdleStyle

\* The built style is given to the map, which holds the layers' text-field
\* arrays from then on.
SetStyle ==
  /\ pc = "localized"
  /\ style' = [given |-> TRUE, layers |-> layers, textFields |-> heap]
  /\ pc' = "styled"
  /\ UNCHANGED <<rin, rout, heap, layers, locales, browser, feature, rendered, uin, unode>>

\* The language changes: the style is built again for another chain.
LanguageChange ==
  /\ pc = "styled"
  /\ \E chain \in BuildChains \ {locales} : locales' = chain
  /\ pc' = "start"
  /\ UNCHANGED <<rin, rout, heap, layers, browser, feature, rendered, uin, unode, style>>

NextBuilds == LocalizeLayersCall \/ SetStyle \/ LanguageChange

SpecBuilds == InitBuilds /\ [][NextBuilds]_vars

\* Whether a let binds name, and the value of the first pair of that name.
Declares(node, name) ==
  IsLet(node) /\ \E i \in NamePositions(node) : node.a[i] = Str(name)
Slot(node, name) ==
  LET hits == {i \in NamePositions(node) : node.a[i] = Str(name)}
  IN  node.a[(CHOOSE i \in hits : \A j \in hits : i <= j) + 1]

\* The layers (by position) that have a text-field binding name.
LayersDeclaring(name) ==
  {i \in 1..Len(layers) : layers[i].hasTextField /\ Declares(heap[layers[i].textField], name)}

\* The first locale is en, or en followed by a code unit that is no letter,
\* digit or underscore (as in en-US).
FirstLocaleEnglish ==
  /\ locales # <<>>
  /\ \/ locales[1] = sEn
     \/ /\ Len(locales[1]) > 2
        /\ SubSeq(locales[1], 1, 2) = sEn
        /\ locales[1][3] \notin WordUnits

FirstLocaleBeginsWithEn ==
  locales # <<>> /\ Len(locales[1]) >= 2 /\ SubSeq(locales[1], 1, 2) = sEn

DiacriticSensitive(layer) ==
  ObjGet(Slot(heap[layer.textField], sDiacriticInsensitiveCollator).a[2],
         "diacritic-sensitive", Null)

\* C12 (as stated): after localizeLayers, the collator bound to
\* diacriticInsensitiveCollator has diacritic-sensitive true (folding off)
\* when the first locale begins with en, and false (folding on) for every
\* other first locale.
C12_FoldingOffForEnglish ==
  (pc \in {"localized", "styled"}) =>
    \A i \in LayersDeclaring(sDiacriticInsensitiveCollator) :
      DiacriticSensitive(layers[i]) = Bool(FirstLocaleBeginsWithEn)

\* C12 (amended): after localizeLayers, the collator bound to
\* diacriticInsensitiveCollator has diacritic-sensitive false (folding on)
\* exactly when the first locale is en or en followed by a non-word code
\* unit, and true (folding off) for every other chain; its locale is the
\* first locale, its case-sensitive false.
C12_FoldingOnlyForEnglish ==
  (pc \in {"localized", "styled"}) =>
    \A i \in LayersDeclaring(sDiacriticInsensitiveCollator) :
      LET collator == Slot(heap[layers[i].textField], sDiacriticInsensitiveCollator)
      IN  /\ collator.a[1] = Str(sCollator)
          /\ DiacriticSensitive(layers[i]) = Bool(~FirstLocaleEnglish)
          /\ ObjGet(collator.a[2], "case-sensitive", Null) = Bool(FALSE)
          /\ ObjGet(collator.a[2], "locale", Null)
               = (IF locales = <<>> THEN Null ELSE Str(locales[1]))

\* A gloss layer localized for en-US: folding is on.
C12_Witness ==
  /\ pc = "localized"
  /\ locales = <<tEnUS, sEn>>
  /\ layers = <<[sourceLayer |-> sPlace, hasTextField |-> TRUE,
                 textField |-> "localizedNameWithLocalGloss"]>>
  /\ DiacriticSensitive(layers[1]) = Bool(FALSE)

\* C13: once a style was given to the map, no later localizeLayers run changes
\* the text-field arrays the map was given: every one is as it was then.
C13_GivenTreesUntouched ==
  style.given =>
    \A i \in 1..Len(style.layers) :
      style.layers[i].hasTextField =>
        heap[style.layers[i].textField] = style.textFields[style.layers[i].textField]

\* C16: after one localizeLayers call, every layer whose text-field is a let
\* binding localizedName has it bound to the name expression with the legacy
\* fields if its source-layer is transportation_name and to the one without
\* them otherwise, in every order of the layers and also when layers share an
\* exported array; an array no layer with a text-field refers to is as exported.
C16_SlotBySourceLayer ==
  (pc = "localized" /\ ~style.given) =>
    /\ \A i \in LayersDeclaring(sLocalizedName) :
         Slot(heap[layers[i].textField], sLocalizedName)
           = getLocalizedNameExpression(locales, layers[i].sourceLayer = sTransportationName)
    /\ \A t \in Templates :
         (\A i \in 1..Len(layers) : layers[i].hasTextField => layers[i].textField # t)
           => heap[t] = ExportedTemplates[t]

=============================================================================
